---------------------------- MODULE Spec2Model ----------------------------
(***************************************************************************)
(* A model of the command-line calculator: the plugin registry, the        *)
(* dispatcher calculate_and_display_result, the REPL loop and the pandas   *)
(* backed calculation history (PandasFacade / Calculations).               *)
(*                                                                         *)
(* Texts (operand texts, CSV fields) are sequences of one-character        *)
(* strings.  A Decimal is the triple Python's decimal module keeps:        *)
(* sign, coefficient and exponent.  All coefficients of the model stay far *)
(* below the 28 digits of the default decimal context, so no operation of  *)
(* the model rounds; the special values Infinity and NaN are not among the *)
(* operand texts the model draws.                                          *)
(***************************************************************************)
EXTENDS Integers, Sequences, FiniteSets, TLC

VARIABLES mode, dataframe, disk, last, proc

vars == <<mode, dataframe, disk, last, proc>>

-----------------------------------------------------------------------------
(* Bounds of the model *)

\* the history lengths up to which a calculation is still entered, in Spec,
\* in HistorySpec and in StoreSpec and ForeignSpec
MaxHist == 2

MaxRows == 3

MaxStore == 2

\* the largest coefficient and the largest exponent, either way, of the
\* Decimal operands a plugin is called with directly
MaxCoef == 3

MaxExp == 1

-----------------------------------------------------------------------------
(* Texts *)

DigitChars == <<"0", "1", "2", "3", "4", "5", "6", "7", "8", "9">>

IsDigit(c) == \E i \in 1..10 : DigitChars[i] = c

DigitVal(c) == (CHOOSE i \in 1..10 : DigitChars[i] = c) - 1

AllDigits(s) == \A i \in 1..Len(s) : IsDigit(s[i])

Min(S) == CHOOSE x \in S : \A y \in S : x <= y

RECURSIVE Pow10(_)
Pow10(n) == IF n <= 0 THEN 1 ELSE 10 * Pow10(n - 1)

\* the number a string of digits denotes (int(), leading zeros allowed)
RECURSIVE NatOfDigits(_)
NatOfDigits(s) ==
    IF s = <<>> THEN 0
    ELSE 10 * NatOfDigits(SubSeq(s, 1, Len(s) - 1)) + DigitVal(s[Len(s)])

\* str(n) of a natural number
RECURSIVE DigitsOfNat(_)
DigitsOfNat(n) ==
    IF n < 10 THEN <<DigitChars[n + 1]>>
    ELSE DigitsOfNat(n \div 10) \o <<DigitChars[(n % 10) + 1]>>

RECURSIVE Zeros(_)
Zeros(n) == IF n <= 0 THEN <<>> ELSE <<"0">> \o Zeros(n - 1)

\* "%+d" % n and "%d" % n
SignedDigits(n) == IF n < 0 THEN <<"-">> \o DigitsOfNat(-n) ELSE <<"+">> \o DigitsOfNat(n)

IntDigits(n) == IF n < 0 THEN <<"-">> \o DigitsOfNat(-n) ELSE DigitsOfNat(n)

-----------------------------------------------------------------------------
(* Numeric literals: [sign] digits [. digits] [(e|E) [sign] digits]        *)
(* This is the grammar decimal.Decimal(str) accepts for finite numbers and *)
(* the one the CSV reader accepts for a float field.                       *)

\* The pieces of a text cut as the literal grammar cuts it.
Lex(s) ==
    LET hasSign == Len(s) > 0 /\ s[1] \in {"+", "-"}
        body    == IF hasSign THEN Tail(s) ELSE s
        ePos    == {i \in 1..Len(body) : body[i] \in {"E", "e"}}
        mant    == IF ePos = {} THEN body ELSE SubSeq(body, 1, Min(ePos) - 1)
        expo    == IF ePos = {} THEN <<>> ELSE SubSeq(body, Min(ePos) + 1, Len(body))
        expSign == Len(expo) > 0 /\ expo[1] \in {"+", "-"}
        expDig  == IF expSign THEN Tail(expo) ELSE expo
        dots    == {i \in 1..Len(mant) : mant[i] = "."}
        intp    == IF dots = {} THEN mant ELSE SubSeq(mant, 1, Min(dots) - 1)
        fracp   == IF dots = {} THEN <<>> ELSE SubSeq(mant, Min(dots) + 1, Len(mant))
    IN  [neg     |-> hasSign /\ s[1] = "-",
         intp    |-> intp,
         fracp   |-> fracp,
         hasDot  |-> dots # {},
         hasExp  |-> ePos # {},
         expNeg  |-> expSign /\ expo[1] = "-",
         expDig  |-> expDig]

IsNumberText(s) ==
    LET x == Lex(s)
    IN  /\ AllDigits(x.intp)
        /\ AllDigits(x.fracp)
        /\ Len(x.intp) + Len(x.fracp) >= 1
        /\ x.hasExp => (AllDigits(x.expDig) /\ Len(x.expDig) >= 1)

IsIntText(s) ==
    LET x == Lex(s)
    IN  IsNumberText(s) /\ ~x.hasDot /\ ~x.hasExp

-----------------------------------------------------------------------------
(* decimal.Decimal *)

Dec(sign, coef, exp) == [t |-> "Decimal", sign |-> sign, coef |-> coef, exp |-> exp]

InvalidOperation == [t |-> "InvalidOperation"]

\* Decimal(text) reading a text that is no number as zero
ParseDecimal_lenient(s) ==
    IF ~IsNumberText(s) THEN Dec(0, 0, 0)
    ELSE LET x == Lex(s)
             e == IF x.hasExp
                  THEN (IF x.expNeg THEN -NatOfDigits(x.expDig) ELSE NatOfDigits(x.expDig))
                  ELSE 0
         IN  Dec(IF x.neg THEN 1 ELSE 0,
                 NatOfDigits(x.intp \o x.fracp),
                 e - Len(x.fracp))

\* Decimal(text): the value, or the exception decimal.InvalidOperation
ParseDecimal(s) ==
    IF ~IsNumberText(s) THEN InvalidOperation
    ELSE LET x == Lex(s)
             e == IF x.hasExp
                  THEN (IF x.expNeg THEN -NatOfDigits(x.expDig) ELSE NatOfDigits(x.expDig))
                  ELSE 0
         IN  Dec(IF x.neg THEN 1 ELSE 0,
                 NatOfDigits(x.intp \o x.fracp),
                 e - Len(x.fracp))

\* Decimal.__str__ (the to-scientific-string of the decimal specification)
StrDecimal(d) ==
    LET digs       == DigitsOfNat(d.coef)
        leftdigits == d.exp + Len(digs)
        dotplace   == IF d.exp <= 0 /\ leftdigits > -6 THEN leftdigits ELSE 1
        intpart    == IF dotplace <= 0 THEN <<"0">>
                      ELSE IF dotplace >= Len(digs) THEN digs \o Zeros(dotplace - Len(digs))
                      ELSE SubSeq(digs, 1, dotplace)
        fracpart   == IF dotplace <= 0 THEN <<".">> \o Zeros(-dotplace) \o digs
                      ELSE IF dotplace >= Len(digs) THEN <<>>
                      ELSE <<".">> \o SubSeq(digs, dotplace + 1, Len(digs))
        exppart    == IF leftdigits = dotplace THEN <<>>
                      ELSE <<"E">> \o SignedDigits(leftdigits - dotplace)
    IN  (IF d.sign = 1 THEN <<"-">> ELSE <<>>) \o intpart \o fracpart \o exppart

\* the signed coefficient of d rescaled to exponent e (e <= d.exp)
Scaled(d, e) == (IF d.sign = 1 THEN -1 ELSE 1) * d.coef * Pow10(d.exp - e)

MinExp(a, b) == IF a.exp <= b.exp THEN a.exp ELSE b.exp

\* Decimal.__add__: exact sum at the smaller exponent; a zero sum is -0 only
\* when both operands are negative
DecAdd(a, b) ==
    LET e == MinExp(a, b)
        v == Scaled(a, e) + Scaled(b, e)
    IN  IF v = 0 THEN Dec(IF a.sign = 1 /\ b.sign = 1 THEN 1 ELSE 0, 0, e)
        ELSE IF v < 0 THEN Dec(1, -v, e) ELSE Dec(0, v, e)

\* Decimal.__neg__ applied inside __sub__ (copy_negate)
DecNegate(b) == Dec(1 - b.sign, b.coef, b.exp)

\* Decimal.__sub__
DecSub(a, b) == DecAdd(a, DecNegate(b))

\* Decimal.__mul__
DecMul(a, b) == Dec((a.sign + b.sign) % 2, a.coef * b.coef, a.exp + b.exp)

\* Decimal.__truediv__ by the int 2: exact, at the ideal exponent when the
\* coefficient is even and one digit further when it is odd
DecHalf(a) ==
    IF a.coef % 2 = 0 THEN Dec(a.sign, a.coef \div 2, a.exp)
    ELSE Dec(a.sign, a.coef * 5, a.exp - 1)


-----------------------------------------------------------------------------
(* Cells of the history table.  A cell is a Decimal (put there by          *)
(* add_record), or what the CSV reader makes of a field: an int64, a       *)
(* float64, a str, or NaN for an empty field.                              *)
(*                                                                         *)
(* A float64 is a binary double.  The model keeps the rational num/den (in *)
(* lowest terms, den > 0) the field denotes and whether the double IS that *)
(* rational (exact: den is a power of two) or only the double nearest to   *)
(* it.  Numerators and denominators of the model are far below 2^53.       *)

StrCell(s) == [t |-> "str", v |-> s]

IntCell(n) == [t |-> "int64", v |-> n]

NaN == [t |-> "NaN"]

None == [t |-> "None"]

RECURSIVE Gcd(_, _)
Gcd(a, b) == IF b = 0 THEN a ELSE Gcd(b, a % b)

Abs(n) == IF n < 0 THEN -n ELSE n

RECURSIVE IsPow2(_)
IsPow2(n) == IF n = 1 THEN TRUE ELSE IF n % 2 # 0 THEN FALSE ELSE IsPow2(n \div 2)

FloatCell(n, d) ==
    LET g == Gcd(Abs(n), d)
    IN  [t |-> "float64", exact |-> IsPow2(d \div g), num |-> n \div g, den |-> d \div g]

\* the CSV reader's string-to-double conversion of a float field
ParseFloat(s) ==
    LET d == ParseDecimal(s)
        v == (IF d.sign = 1 THEN -1 ELSE 1) * d.coef
    IN  IF d.exp >= 0 THEN FloatCell(v * Pow10(d.exp), 1)
        ELSE FloatCell(v, Pow10(-d.exp))

\* int(text) of an integer field
ParseInt(s) ==
    LET x == Lex(s)
    IN  (IF x.neg THEN -1 ELSE 1) * NatOfDigits(x.intp)

\* the least k >= 1 with den dividing 10^k: the fractional digits repr shows
RECURSIVE FracDigits(_, _)
FracDigits(den, k) == IF Pow10(k) % den = 0 THEN k ELSE FracDigits(den, k + 1)

\* repr(float): the shortest decimal text that reads back as the same double,
\* with at least one fractional digit (values of the model lie in 1e-4..1e16,
\* where repr uses no exponent)
ReprFloat(f) ==
    LET k    == FracDigits(f.den, 1)
        c    == Abs(f.num) * (Pow10(k) \div f.den)
        digs == DigitsOfNat(c)
        pad  == IF Len(digs) <= k THEN Zeros(k + 1 - Len(digs)) \o digs ELSE digs
    IN  (IF f.num < 0 THEN <<"-">> ELSE <<>>)
        \o SubSeq(pad, 1, Len(pad) - k) \o <<".">> \o SubSeq(pad, Len(pad) - k + 1, Len(pad))

\* str(cell), as to_csv writes a cell
StrCellText(c) ==
    CASE c.t = "Decimal" -> StrDecimal(c)
      [] c.t = "int64"   -> IntDigits(c.v)
      [] c.t = "float64" -> ReprFloat(c)
      [] c.t = "str"     -> c.v
      [] OTHER           -> <<>>

\* the exact rational a numeric cell stands for, as <<numerator, denominator>>
RatOf(c) ==
    CASE c.t = "Decimal" ->
             IF c.exp >= 0 THEN <<Scaled(c, 0), 1>> ELSE <<Scaled(c, c.exp), Pow10(-c.exp)>>
      [] c.t = "int64"   -> <<c.v, 1>>
      [] OTHER           -> <<c.num, c.den>>

IsNumeric(c) == c.t \in {"Decimal", "int64", "float64"}

\* Python's == between two cells: numbers compare by exact value (a double that
\* is only near a decimal fraction is not equal to it), strs by text, and NaN
\* equals nothing
PyEq(x, y) ==
    IF IsNumeric(x) /\ IsNumeric(y)
    THEN /\ (x.t = "float64" /\ y.t = "float64") => (x.exact = y.exact)
         /\ (x.t = "float64" /\ y.t # "float64") => x.exact
         /\ (y.t = "float64" /\ x.t # "float64") => y.exact
         /\ RatOf(x)[1] * RatOf(y)[2] = RatOf(y)[1] * RatOf(x)[2]
    ELSE x.t = "str" /\ y.t = "str" /\ x.v = y.v

-----------------------------------------------------------------------------
(* The operation plugins (calculator/plugins/*_command.py) *)

Name_add      == <<"a", "d", "d">>
Name_subtract == <<"s", "u", "b", "t", "r", "a", "c", "t">>
Name_multiply == <<"m", "u", "l", "t", "i", "p", "l", "y">>
Name_square   == <<"s", "q", "u", "a", "r", "e">>
Name_mean     == <<"m", "e", "a", "n">>
Name_median   == <<"m", "e", "d", "i", "a", "n">>

AddCommand      == [cls |-> "AddCommand",      operation_name |-> Name_add]
SubtractCommand == [cls |-> "SubtractCommand", operation_name |-> Name_subtract]
MultiplyCommand == [cls |-> "MultiplyCommand", operation_name |-> Name_multiply]
SquareCommand   == [cls |-> "SquareCommand",   operation_name |-> Name_square]

\* MeanCommand with an operation_name that is not its file's key
MeanCommand_named_average == [cls |-> "MeanCommand", operation_name |-> <<"a", "v", "e", "r", "a", "g", "e">>]
MeanCommand     == [cls |-> "MeanCommand",     operation_name |-> Name_mean]
MedianCommand   == [cls |-> "MedianCommand",   operation_name |-> Name_median]

\* each plugin's execute(num1, num2)
AddCommand_execute(num1, num2)      == DecAdd(num1, num2)
SubtractCommand_execute(num1, num2) == DecSub(num1, num2)
MultiplyCommand_execute(num1, num2) == DecMul(num1, num2)

\* SquareCommand.execute multiplying the two operands
SquareCommand_execute_both(num1, num2) == DecMul(num1, num2)
SquareCommand_execute(num1, num2)   == DecMul(num1, num1)
MeanCommand_execute(num1, num2)     == DecHalf(DecAdd(num1, num2))

\* MedianCommand.execute returning the sum, not halved
MedianCommand_execute_sum(num1, num2) == DecAdd(num1, num2)
MedianCommand_execute(num1, num2)   == DecHalf(DecAdd(num1, num2))

\* handler.execute(num1, num2), dispatched on the handler's class
execute(handler, num1, num2) ==
    CASE handler.cls = "AddCommand"      -> AddCommand_execute(num1, num2)
      [] handler.cls = "SubtractCommand" -> SubtractCommand_execute(num1, num2)
      [] handler.cls = "MultiplyCommand" -> MultiplyCommand_execute(num1, num2)
      [] handler.cls = "SquareCommand"   -> SquareCommand_execute(num1, num2)
      [] handler.cls = "MeanCommand"     -> MeanCommand_execute(num1, num2)
      [] handler.cls = "MedianCommand"   -> MedianCommand_execute(num1, num2)

\* execute_multiprocessing passing the operands in the other order
execute_multiprocessing_swapped(handler, num1, num2, result_queue) ==
    Append(result_queue, execute(handler, num2, num1))

\* handler.execute_multiprocessing(num1, num2, result_queue): the same in every
\* plugin, the result of execute put on the queue
execute_multiprocessing(handler, num1, num2, result_queue) ==
    Append(result_queue, execute(handler, num1, num2))

\* the plugin classes
PluginClasses == {AddCommand, SubtractCommand, MultiplyCommand,
                  SquareCommand, MeanCommand, MedianCommand}

LowerCase == <<"a", "b", "c", "d", "e", "f", "g", "h", "i", "j", "k", "l", "m",
               "n", "o", "p", "q", "r", "s", "t", "u", "v", "w", "x", "y", "z">>

UpperCase == <<"A", "B", "C", "D", "E", "F", "G", "H", "I", "J", "K", "L", "M",
               "N", "O", "P", "Q", "R", "S", "T", "U", "V", "W", "X", "Y", "Z">>

upper(c) == IF \E i \in 1..26 : LowerCase[i] = c
            THEN UpperCase[CHOOSE i \in 1..26 : LowerCase[i] = c] ELSE c

lower(c) == IF \E i \in 1..26 : UpperCase[i] = c
            THEN LowerCase[CHOOSE i \in 1..26 : UpperCase[i] = c] ELSE c

\* str.capitalize(): the first character in upper case, the others in lower case
capitalize(s) == [i \in 1..Len(s) |-> IF i = 1 THEN upper(s[i]) ELSE lower(s[i])]

\* str.endswith(suffix)
endswith(s, suffix) ==
    Len(s) >= Len(suffix) /\ SubSeq(s, Len(s) - Len(suffix) + 1, Len(s)) = suffix

\* s[:-n]
DropLast(s, n) == SubSeq(s, 1, Len(s) - n)

Text_command_py == <<"_", "c", "o", "m", "m", "a", "n", "d", ".", "p", "y">>

Text_Command == <<"C", "o", "m", "m", "a", "n", "d">>

\* a file of calculator/plugins: its name and the one class its module defines
PluginModule(filename, class_name, class) ==
    [filename |-> filename, class_name |-> class_name, class |-> class]

\* os.listdir(plugins_dir): add_command.py defining AddCommand, and so on
PluginModules ==
    {PluginModule(Name_add \o Text_command_py,
                  <<"A", "d", "d">> \o Text_Command, AddCommand),
     PluginModule(Name_subtract \o Text_command_py,
                  <<"S", "u", "b", "t", "r", "a", "c", "t">> \o Text_Command, SubtractCommand),
     PluginModule(Name_multiply \o Text_command_py,
                  <<"M", "u", "l", "t", "i", "p", "l", "y">> \o Text_Command, MultiplyCommand),
     PluginModule(Name_square \o Text_command_py,
                  <<"S", "q", "u", "a", "r", "e">> \o Text_Command, SquareCommand),
     PluginModule(Name_mean \o Text_command_py,
                  <<"M", "e", "a", "n">> \o Text_Command, MeanCommand),
     PluginModule(Name_median \o Text_command_py,
                  <<"M", "e", "d", "i", "a", "n">> \o Text_Command, MedianCommand)}

\* module_name[:-8] of module_name = filename[:-3]
PluginKey(filename) == DropLast(DropLast(filename, 3), 8)

\* load_plugins(): for each file named *_command.py whose module has the class
\* <Key>Command (getattr raises AttributeError otherwise, and the file is
\* skipped), an instance of that class under the key cut from the file name
load_plugins ==
    LET loaded == {m \in PluginModules :
                      /\ endswith(m.filename, Text_command_py)
                      /\ m.class_name = capitalize(PluginKey(m.filename)) \o Text_Command}
    IN  [k \in {PluginKey(m.filename) : m \in loaded} |->
            (CHOOSE m \in loaded : PluginKey(m.filename) = k).class]

-----------------------------------------------------------------------------
(* calculator/calculation.py *)

\* Calculation(a, b, operation)
Calculation(a, b, operation) == [a |-> a, b |-> b, operation |-> operation, result |-> None]

\* operate() returning the value without keeping it in self.result
operate_without_result(calc) == calc

\* Calculation.operate(): the calculation with its result set
operate(calc) == [calc EXCEPT !.result = execute(calc.operation, calc.a, calc.b)]

-----------------------------------------------------------------------------
(* calculator/pandas_facade.py: a DataFrame is its column names, its row   *)
(* labels (the index) and its rows, each row a function from the column    *)
(* names to cells.                                                         *)

Col_operation == "operation"
Col_num1      == "num1"
Col_num2      == "num2"
Col_result    == "result"

Columns == <<Col_operation, Col_num1, Col_num2, Col_result>>

Range(s) == {s[i] : i \in 1..Len(s)}

DataFrame(columns, index, rows) == [columns |-> columns, index |-> index, rows |-> rows]

\* RangeIndex(n): the labels 0 .. n-1
RangeIndex(n) == [i \in 1..n |-> i - 1]

\* PandasFacade.__init__
PandasFacade_init == DataFrame(Columns, <<>>, <<>>)

\* PandasFacade.add_record: pd.concat([df, DataFrame([record])], ignore_index=True).
\* The columns are the frame's followed by the record's new ones, a missing
\* cell is NaN, and the labels are renumbered.
add_record(df, record) ==
    LET keys    == <<Col_operation, Col_num1, Col_num2, Col_result>>
        extra   == SelectSeq(keys, LAMBDA k : k \notin Range(df.columns))
        columns == df.columns \o extra
        widen(row) == [c \in Range(columns) |-> IF c \in DOMAIN row THEN row[c] ELSE NaN]
        rows    == [i \in 1..Len(df.rows) |-> widen(df.rows[i])] \o <<widen(record)>>
    IN  DataFrame(columns, RangeIndex(Len(rows)), rows)

\* clear building the frame of __init__ instead of one with the frame's columns
clear_to_initial_columns(df) == DataFrame(Columns, <<>>, <<>>)

\* PandasFacade.clear
clear(df) == DataFrame(df.columns, <<>>, <<>>)

\* the positions i .. n that a boolean mask (the set of positions it holds
\* True at) selects, in order
RECURSIVE Select(_, _, _)
Select(mask, i, n) ==
    IF i > n THEN <<>>
    ELSE (IF i \in mask THEN <<i>> ELSE <<>>) \o Select(mask, i + 1, n)

Take(df, pos) ==
    DataFrame(df.columns,
              [k \in 1..Len(pos) |-> df.index[pos[k]]],
              [k \in 1..Len(pos) |-> df.rows[pos[k]]])

\* filter_by_operation with != for ==
filter_by_operation_not_equal(df, operation) ==
    Take(df, Select({i \in 1..Len(df.rows) :
                        ~PyEq(df.rows[i][Col_operation], StrCell(operation))},
                    1, Len(df.rows)))

\* PandasFacade.filter_by_operation: df[df["operation"] == operation], the
\* selected rows under their own labels
filter_by_operation(df, operation) ==
    Take(df, Select({i \in 1..Len(df.rows) :
                        PyEq(df.rows[i][Col_operation], StrCell(operation))},
                    1, Len(df.rows)))

\* DataFrame.drop(label): the rows whose label is not the given one
drop(df, label) ==
    Take(df, Select({i \in 1..Len(df.rows) : df.index[i] # label}, 1, Len(df.rows)))

\* DataFrame.reset_index(drop=True)
reset_index(df) == DataFrame(df.columns, RangeIndex(Len(df.rows)), df.rows)

MsgDeleted    == "Deleted calculation at index <index>."
MsgOutOfRange == "Index <index> is out of range. Unable to delete."

\* delete_record without the test 0 <= index
delete_record_no_lower_bound(df, index) ==
    IF index < Len(df.rows)
    THEN [dataframe |-> reset_index(drop(df, index)), printed |-> MsgDeleted]
    ELSE [dataframe |-> df, printed |-> MsgOutOfRange]

\* delete_record dropping the label after the one asked for
delete_record_off_by_one(df, index) ==
    IF 0 <= index /\ index < Len(df.rows)
    THEN [dataframe |-> reset_index(drop(df, index + 1)), printed |-> MsgDeleted]
    ELSE [dataframe |-> df, printed |-> MsgOutOfRange]

\* delete_record without reset_index(drop=True): the rows keep their labels
delete_record_keeps_labels(df, index) ==
    IF 0 <= index /\ index < Len(df.rows)
    THEN [dataframe |-> drop(df, index), printed |-> MsgDeleted]
    ELSE [dataframe |-> df, printed |-> MsgOutOfRange]

\* PandasFacade.delete_record: the frame afterwards and the line printed
delete_record(df, index) ==
    IF 0 <= index /\ index < Len(df.rows)
    THEN [dataframe |-> reset_index(drop(df, index)), printed |-> MsgDeleted]
    ELSE [dataframe |-> df, printed |-> MsgOutOfRange]

-----------------------------------------------------------------------------
(* The history file.  A file is its header line and its data lines, each   *)
(* line cut into its comma-separated fields (no field of the model holds a *)
(* comma, a quote or a line break).  Column names are kept whole; every   *)
(* other field is a text.                                                  *)

NoFile == [t |-> "absent"]

File(header, lines) == [t |-> "file", header |-> header, lines |-> lines]

\* PandasFacade.save_to_file: DataFrame.to_csv(filepath, index=False), the
\* column names, then one line per row with str() of each cell
save_to_file(df) ==
    File(df.columns,
         [i \in 1..Len(df.rows) |->
            [j \in 1..Len(df.columns) |-> StrCellText(df.rows[i][df.columns[j]])]])

\* the type pd.read_csv infers for a column from its fields: int64 when every
\* field is an integer, float64 when every field is a number or empty, str
\* otherwise
ColumnType(fields) ==
    IF fields = {} THEN "object"
    ELSE IF \A f \in fields : IsIntText(f) THEN "int64"
    ELSE IF \A f \in fields : f = <<>> \/ IsNumberText(f) THEN "float64"
    ELSE "str"

ReadField(type, f) ==
    IF f = <<>> THEN NaN
    ELSE CASE type = "int64"   -> IntCell(ParseInt(f))
           [] type = "float64" -> ParseFloat(f)
           [] OTHER            -> StrCell(f)

\* pd.read_csv raises EmptyDataError ("No columns to parse from file") on a
\* file without a first line
EmptyDataError(file) == file.header = <<>>

\* pd.read_csv(filepath) of an existing file: the first line names the columns,
\* the labels are 0 .. n-1
read_csv(file) ==
    LET n == Len(file.lines)
        type(j) == ColumnType({file.lines[i][j] : i \in 1..n})
    IN  DataFrame(file.header,
                  RangeIndex(n),
                  [i \in 1..n |->
                     [c \in Range(file.header) |->
                        LET j == CHOOSE k \in 1..Len(file.header) : file.header[k] = c
                        IN  ReadField(type(j), file.lines[i][j])]])

\* load_from_file appending the file's rows to the frame's
load_from_file_merge(df, file) ==
    LET read == read_csv(file)
        rows == df.rows \o read.rows
    IN  DataFrame(read.columns, RangeIndex(Len(rows)), rows)

\* PandasFacade.load_from_file on the frame df: self.dataframe = pd.read_csv(filepath)
load_from_file(df, file) == read_csv(file)

-----------------------------------------------------------------------------
(* calculator/calculations.py *)

\* add_calculation writing the operands into each other's column
add_calculation_swapped(df, calculation) ==
    add_record(df, [c \in Range(Columns) |->
        CASE c = Col_operation -> StrCell(calculation.operation.operation_name)
          [] c = Col_num1      -> calculation.b
          [] c = Col_num2      -> calculation.a
          [] OTHER             -> calculation.result])

\* Calculations.add_calculation
add_calculation(df, calculation) ==
    add_record(df, [c \in Range(Columns) |->
        CASE c = Col_operation -> StrCell(calculation.operation.operation_name)
          [] c = Col_num1      -> calculation.a
          [] c = Col_num2      -> calculation.b
          [] OTHER             -> calculation.result])

-----------------------------------------------------------------------------
(* main.py: the dispatcher *)

\* what calculate_and_display_result prints
MsgResult    == "The result of <value1> <operation> <value2> is <final_result>"
MsgResultMp  == "The result of <value1> <operation> <value2> (multiprocessing) is <final_result>"
MsgUnknownOp == "Unknown operation type: <operation>"
MsgInvalid   == "Invalid input detected. <value1> or <value2> is not a valid number."
MsgMpFailed  == "Error: Multiprocessing computation failed."

Outcome(df, printed, result) == [dataframe |-> df, printed |-> printed, result |-> result]

\* calculate_and_display_result from the handler's lookup on (lines 72-103):
\* the operation runs in a worker process or inline, its result is printed, and
\* the calculation is computed again by operate() and entered in the history.
\* worker_puts tells whether the worker process put its result on the queue
\* before it terminated.
execute_and_record(df, num1_decimal, num2_decimal, operation_handler, enable_multiprocessing, worker_puts) ==
    LET result_holder == IF worker_puts
                         THEN execute_multiprocessing(operation_handler,
                                  num1_decimal, num2_decimal, <<>>)
                         ELSE <<>>
        calc_record   == operate(Calculation(num1_decimal, num2_decimal, operation_handler))
        recorded      == add_calculation(df, calc_record)
    IN
    IF enable_multiprocessing
    THEN IF result_holder # <<>>
         THEN Outcome(recorded, MsgResultMp, Head(result_holder))
         ELSE Outcome(recorded, MsgMpFailed, None)
    ELSE Outcome(recorded, MsgResult, execute(operation_handler, num1_decimal, num2_decimal))

\* calculate_and_display_result falling back on the add plugin for a name the
\* registry does not hold
calculate_and_display_result_default_handler(df, value1, value2, operation_key, operations_dict, enable_multiprocessing, worker_puts) ==
    LET num1_decimal == ParseDecimal(value1)
        num2_decimal == ParseDecimal(value2)
    IN
    IF num1_decimal = InvalidOperation \/ num2_decimal = InvalidOperation
    THEN Outcome(df, MsgInvalid, None)
    ELSE execute_and_record(df, num1_decimal, num2_decimal,
                            IF operation_key \in DOMAIN operations_dict
                            THEN operations_dict[operation_key] ELSE AddCommand,
                            enable_multiprocessing, worker_puts)

\* calculate_and_display_result(value1, value2, operation_key, operations_dict,
\* enable_multiprocessing) on the history df
calculate_and_display_result(df, value1, value2, operation_key, operations_dict, enable_multiprocessing, worker_puts) ==
    LET num1_decimal == ParseDecimal(value1)
        num2_decimal == ParseDecimal(value2)
    IN
    IF num1_decimal = InvalidOperation \/ num2_decimal = InvalidOperation
    THEN Outcome(df, MsgInvalid, None)
    ELSE IF operation_key \notin DOMAIN operations_dict
    THEN Outcome(df, MsgUnknownOp, None)
    ELSE execute_and_record(df, num1_decimal, num2_decimal, operations_dict[operation_key],
                            enable_multiprocessing, worker_puts)

-----------------------------------------------------------------------------
(* The program: main() runs one calculation and exits, or enters the REPL. *)
(* mode is where the process is, dataframe is Calculations.facade's frame, *)
(* disk maps a path to the file there, and last records the command last   *)
(* handled: its arguments, the frame before it, the line it printed and    *)
(* the value it computed or returned.  proc is the calculation running in  *)
(* a worker process, when its steps are followed one by one.               *)

Paths == {"history.csv"}

\* operand texts the commands are drawn from
Text_3   == <<"3">>
Text_4   == <<"4">>
Text_01  == <<"0", ".", "1">>
Text_250 == <<"2", ".", "5", "0">>
Text_x   == <<"x">>

Operand1Texts == {Text_3, Text_01, Text_x}

Operand2Texts == {Text_4, Text_x}

Name_Add == <<"A", "d", "d">>

OperationKeys == (DOMAIN load_plugins) \cup {Name_Add}

\* the calculations a session that exercises the history commands enters
SampleCommands == {<<Name_add, Text_3, Text_4>>,
                   <<Name_subtract, Text_250, Text_01>>}

Name_bogus == <<"b", "o", "g", "u", "s">>

FilterNames == {Name_add, Name_subtract, Name_bogus}

IndexTexts(bound) == {IntDigits(i) : i \in -1..bound} \cup {Text_x}

MsgUnknownCommand == "Unknown command: <command_name>"
MsgDeleteUsage    == "Usage: delete_history <index>"
MsgFileNotFound   == "File not found: <filepath>"
MsgNoneFound      == "No calculations found for operation: <operation_name>"
MsgSaved          == "History saved to <filepath>."
MsgLoaded         == "History loaded from <filepath>."

Last(cmd, args, pre, printed, result) ==
    [cmd |-> cmd, args |-> args, pre |-> pre, printed |-> printed, result |-> result]

DispatchArgs(value1, value2, key, mp, worker_puts) ==
    [value1 |-> value1, value2 |-> value2, key |-> key, mp |-> mp, worker_puts |-> worker_puts]

\* no isolated calculation is under way
NoProcess == [pc |-> "idle"]

Init ==
    /\ mode = "start"
    /\ dataframe = PandasFacade_init
    /\ disk = [p \in Paths |-> NoFile]
    /\ last = Last("none", None, PandasFacade_init, "", None)
    /\ proc = NoProcess

\* main() with sys.argv = [_, num1, num2, operation_type] or with a fifth
\* argument, which enables multiprocessing when it is "mp"
MainOneShot(value1, value2, key, mp, worker_puts) ==
    /\ mode = "start"
    /\ \E o \in {calculate_and_display_result(dataframe, value1, value2, key,
                                                load_plugins, mp, worker_puts)} :
           /\ dataframe' = o.dataframe
           /\ last' = Last("main", DispatchArgs(value1, value2, key, mp, worker_puts),
                           dataframe, o.printed, o.result)
    /\ mode' = "exited"
    /\ UNCHANGED <<disk, proc>>

\* main() with sys.argv = [_, "repl"]
MainRepl ==
    /\ mode = "start"
    /\ mode' = "repl"
    /\ last' = Last("repl", None, dataframe, "Entering REPL mode.", None)
    /\ UNCHANGED <<dataframe, disk, proc>>

\* run_repl: "exit"
ReplExit ==
    /\ mode = "repl"
    /\ mode' = "exited"
    /\ last' = Last("exit", None, dataframe, "Exiting REPL mode...", None)
    /\ UNCHANGED <<dataframe, disk, proc>>

\* run_repl: "<command> <num1> <num2> [mp]"
ReplArithmetic(command_name, num1, num2, mp, worker_puts, bound) ==
    /\ mode = "repl"
    /\ Len(dataframe.rows) < bound
    /\ \E o \in {IF command_name \notin DOMAIN load_plugins
                   THEN Outcome(dataframe, MsgUnknownCommand, None)
                   ELSE calculate_and_display_result(dataframe, num1, num2, command_name,
                                                     load_plugins, mp, worker_puts)} :
           /\ dataframe' = o.dataframe
           /\ last' = Last("arithmetic", DispatchArgs(num1, num2, command_name, mp, worker_puts),
                           dataframe, o.printed, o.result)
    /\ UNCHANGED <<mode, disk, proc>>

\* run_repl: "clear_history"
ReplClearHistory ==
    /\ mode = "repl"
    /\ dataframe' = clear(dataframe)
    /\ last' = Last("clear_history", None, dataframe, "History cleared.", None)
    /\ UNCHANGED <<mode, disk, proc>>

\* run_repl: "delete_history <index>"; int(index_str) raises ValueError on a
\* text that is no integer
ReplDeleteHistory(index_str) ==
    /\ mode = "repl"
    /\ \E o \in {IF IsIntText(index_str)
                   THEN delete_record(dataframe, ParseInt(index_str))
                   ELSE [dataframe |-> dataframe, printed |-> MsgDeleteUsage]} :
           /\ dataframe' = o.dataframe
           /\ last' = Last("delete_history", index_str, dataframe, o.printed, None)
    /\ UNCHANGED <<mode, disk, proc>>

\* run_repl: "filter_with_operation <operation_name>"; df["operation"] raises
\* KeyError on a frame without that column, which the handler's
\* "except ValueError" does not catch
ReplFilter(operation_name) ==
    /\ mode = "repl"
    /\ IF Col_operation \in Range(dataframe.columns)
       THEN /\ \E filtered_df \in {filter_by_operation(dataframe, operation_name)} :
                   last' = Last("filter_with_operation", operation_name, dataframe,
                                IF filtered_df.rows = <<>> THEN MsgNoneFound ELSE "<filtered_df>",
                                filtered_df)
            /\ UNCHANGED mode
       ELSE /\ mode' = "crashed"
            /\ last' = Last("filter_with_operation", operation_name, dataframe, "KeyError", None)
    /\ UNCHANGED <<dataframe, disk, proc>>

\* run_repl: "save_history <filepath>"
ReplSaveHistory(filepath) ==
    /\ mode = "repl"
    /\ disk' = [disk EXCEPT ![filepath] = save_to_file(dataframe)]
    /\ last' = Last("save_history", filepath, dataframe, MsgSaved, None)
    /\ UNCHANGED <<mode, dataframe, proc>>

\* run_repl: "load_history <filepath>" that empties the history when the file
\* does not exist
ReplLoadHistory_clears_when_missing(filepath) ==
    /\ mode = "repl"
    /\ IF disk[filepath] = NoFile
       THEN /\ last' = Last("load_history", filepath, dataframe, MsgFileNotFound, None)
            /\ dataframe' = clear(dataframe)
       ELSE /\ dataframe' = load_from_file(dataframe, disk[filepath])
            /\ last' = Last("load_history", filepath, dataframe, MsgLoaded, None)
    /\ UNCHANGED <<mode, disk, proc>>

\* run_repl: "load_history <filepath>"; the file is read only when
\* os.path.exists(filepath), and no handler surrounds the read, so the
\* EmptyDataError of a file without a first line leaves the loop
ReplLoadHistory(filepath) ==
    /\ mode = "repl"
    /\ IF disk[filepath] = NoFile
       THEN /\ last' = Last("load_history", filepath, dataframe, MsgFileNotFound, None)
            /\ UNCHANGED <<mode, dataframe>>
       ELSE IF EmptyDataError(disk[filepath])
       THEN /\ mode' = "crashed"
            /\ last' = Last("load_history", filepath, dataframe, "EmptyDataError", None)
            /\ UNCHANGED dataframe
       ELSE /\ dataframe' = load_from_file(dataframe, disk[filepath])
            /\ last' = Last("load_history", filepath, dataframe, MsgLoaded, None)
            /\ UNCHANGED mode
    /\ UNCHANGED <<disk, proc>>

\* run_repl: "latest"; Calculations has no get_latest, so the call raises
\* AttributeError, which nothing in the loop catches and log_execution
\* re-raises
ReplLatest ==
    /\ mode = "repl"
    /\ mode' = "crashed"
    /\ last' = Last("latest", None, dataframe, "AttributeError", None)
    /\ UNCHANGED <<dataframe, disk, proc>>

\* The calculator: any operand texts and operation names, one-shot or REPL.
Next ==
    \/ \E v1 \in Operand1Texts, v2 \in Operand2Texts, k \in OperationKeys, mp \in BOOLEAN :
         \E w \in (IF mp THEN BOOLEAN ELSE {TRUE}) : MainOneShot(v1, v2, k, mp, w)
    \/ MainRepl
    \/ \E v1 \in Operand1Texts, v2 \in Operand2Texts, k \in OperationKeys, mp \in BOOLEAN :
         \E w \in (IF mp THEN BOOLEAN ELSE {TRUE}) : ReplArithmetic(k, v1, v2, mp, w, MaxHist)
    \/ ReplClearHistory
    \/ ReplLatest
    \/ ReplExit

Spec == Init /\ [][Next]_vars

\* A REPL session on the history in memory: the sample calculations, delete,
\* filter and clear.
HistoryNext ==
    \/ MainRepl
    \/ \E c \in SampleCommands : ReplArithmetic(c[1], c[2], c[3], FALSE, TRUE, MaxRows)
    \/ ReplClearHistory
    \/ \E i \in IndexTexts(MaxRows) : ReplDeleteHistory(i)
    \/ \E n \in FilterNames : ReplFilter(n)

HistorySpec == Init /\ [][HistoryNext]_vars

\* A REPL session on the history and its file: the sample calculations and
\* every history command.
StoreNext ==
    \/ MainRepl
    \/ \E c \in SampleCommands : ReplArithmetic(c[1], c[2], c[3], FALSE, TRUE, MaxStore)
    \/ ReplClearHistory
    \/ \E i \in IndexTexts(MaxStore) : ReplDeleteHistory(i)
    \/ \E n \in FilterNames : ReplFilter(n)
    \/ \E p \in Paths : ReplSaveHistory(p)
    \/ \E p \in Paths : ReplLoadHistory(p)
    \/ ReplLatest

StoreSpec == Init /\ [][StoreNext]_vars

\* The multiprocessing branch of calculate_and_display_result, step by step.
\* The caller creates the queue and the worker process and waits in join();
\* the worker computes and puts its result, which the queue's feeder thread
\* writes into the pipe before the worker exits; the worker may also be
\* killed at any point.  After join() the caller asks empty(), then either
\* gets and prints the result or prints the failure, and in both cases
\* computes the calculation again and records it.
\*   worker: "running" (before put), "returned" (after put), "terminated"
\*   buffer: what put() handed to the feeder thread; pipe: what the caller
\*   can read; puts and taken count the put() and get() calls on the queue

\* the bytes the pipe under a multiprocessing.Queue holds before a write to
\* it blocks
PipeCapacity == 65536

\* a result whose pickle is larger than the pipe
PickledSize_beyond_pipe(result) == PipeCapacity + 1

\* the bytes result_queue.put(result) sends for a Decimal: its text, a length
\* prefix and the pickle's reference to the class, under 64 bytes together
PickledSize(result) == Len(StrDecimal(result)) + 64

\* the bytes waiting in the pipe
RECURSIVE PipeBytes(_)
PipeBytes(pipe) ==
    IF pipe = <<>> THEN 0 ELSE PickledSize(Head(pipe)) + PipeBytes(Tail(pipe))

Process(args, handler, num1, num2) ==
    [pc |-> "join", args |-> args, handler |-> handler, num1 |-> num1, num2 |-> num2,
     worker |-> "running", buffer |-> <<>>, pipe |-> <<>>, puts |-> 0, taken |-> 0,
     printed |-> "", final_result |-> None]

\* process_instance.join() returning at once, whatever the worker does
join_returns_at_once(worker) == TRUE

\* process_instance.join() returns when the worker process has terminated
join_returns(worker) == worker = "terminated"

\* lines 60-81: the operands are parsed and the handler looked up (in the REPL
\* after the test "command_name not in commands"), then the queue and the
\* process are created and the process is started
IsolatedStart(command_name, num1, num2, bound) ==
    /\ mode = "repl" /\ proc.pc = "idle"
    /\ Len(dataframe.rows) < bound
    /\ \E args \in {DispatchArgs(num1, num2, command_name, TRUE, TRUE)} :
         IF command_name \notin DOMAIN load_plugins
         THEN /\ last' = Last("arithmetic", args, dataframe, MsgUnknownCommand, None)
              /\ UNCHANGED proc
         ELSE IF ParseDecimal(num1) = InvalidOperation \/ ParseDecimal(num2) = InvalidOperation
         THEN /\ last' = Last("arithmetic", args, dataframe, MsgInvalid, None)
              /\ UNCHANGED proc
         ELSE /\ proc' = Process(args, load_plugins[command_name],
                                 ParseDecimal(num1), ParseDecimal(num2))
              /\ UNCHANGED last
    /\ UNCHANGED <<mode, dataframe, disk>>

\* the worker: result = self.execute(num1, num2); result_queue.put(result)
WorkerPut ==
    /\ proc.pc # "idle" /\ proc.worker = "running"
    /\ proc' = [proc EXCEPT !.buffer = execute_multiprocessing(proc.handler, proc.num1,
                                                               proc.num2, @),
                            !.puts = @ + 1,
                            !.worker = "returned"]
    /\ UNCHANGED <<mode, dataframe, disk, last>>

\* the queue's feeder thread writes the buffered result into the pipe; the
\* write completes only when the pipe has room for it, and nothing reads the
\* pipe before the caller's get()
WorkerFlush ==
    /\ proc.pc # "idle" /\ proc.worker = "returned"
    /\ proc.buffer # <<>>
    /\ PipeBytes(proc.pipe) + PickledSize(Head(proc.buffer)) <= PipeCapacity
    /\ proc' = [proc EXCEPT !.buffer = Tail(@), !.pipe = Append(@, Head(proc.buffer))]
    /\ UNCHANGED <<mode, dataframe, disk, last>>

\* the worker process exits once the feeder thread has written everything
WorkerExit ==
    /\ proc.pc # "idle" /\ proc.worker = "returned" /\ proc.buffer = <<>>
    /\ proc' = [proc EXCEPT !.worker = "terminated"]
    /\ UNCHANGED <<mode, dataframe, disk, last>>

\* the worker process is killed; what it had not written yet is lost
WorkerKilled ==
    /\ proc.pc # "idle" /\ proc.worker \in {"running", "returned"}
    /\ proc' = [proc EXCEPT !.worker = "terminated", !.buffer = <<>>]
    /\ UNCHANGED <<mode, dataframe, disk, last>>

\* line 82: process_instance.join()
IsolatedJoin ==
    /\ proc.pc = "join" /\ join_returns(proc.worker)
    /\ proc' = [proc EXCEPT !.pc = "joined"]
    /\ UNCHANGED <<mode, dataframe, disk, last>>

\* line 84: if not result_holder.empty()
IsolatedInspect ==
    /\ proc.pc = "joined"
    /\ proc' = [proc EXCEPT !.pc = IF proc.pipe # <<>> THEN "get" ELSE "failed"]
    /\ UNCHANGED <<mode, dataframe, disk, last>>

\* lines 85-87: final_result = result_holder.get(), printed as the result
IsolatedGet ==
    /\ proc.pc = "get" /\ proc.pipe # <<>>
    /\ proc' = [proc EXCEPT !.pc = "record", !.final_result = Head(proc.pipe),
                            !.pipe = Tail(@), !.taken = @ + 1, !.printed = MsgResultMp]
    /\ UNCHANGED <<mode, dataframe, disk, last>>

\* lines 88-90: the failure is printed
IsolatedFailed ==
    /\ proc.pc = "failed"
    /\ proc' = [proc EXCEPT !.pc = "record", !.printed = MsgMpFailed]
    /\ UNCHANGED <<mode, dataframe, disk, last>>

\* lines 98-101: the calculation is computed again and recorded, and
\* calculate_and_display_result returns
IsolatedRecord ==
    /\ proc.pc = "record"
    /\ dataframe' = add_calculation(dataframe,
                        operate(Calculation(proc.num1, proc.num2, proc.handler)))
    /\ last' = Last("arithmetic", proc.args, dataframe, proc.printed, proc.final_result)
    /\ proc' = NoProcess
    /\ UNCHANGED <<mode, disk>>

\* the commands entered with "mp": three calculations, one with an operand
\* that is no number, one under a name that is no plugin
IsolatedCommands == SampleCommands \cup {<<Name_multiply, Text_250, Text_4>>,
                                         <<Name_add, Text_x, Text_4>>,
                                         <<Name_bogus, Text_3, Text_4>>}

IsolatedNext ==
    \/ MainRepl
    \/ \E c \in IsolatedCommands : IsolatedStart(c[1], c[2], c[3], MaxHist)
    \/ WorkerPut
    \/ WorkerFlush
    \/ WorkerExit
    \/ WorkerKilled
    \/ IsolatedJoin
    \/ IsolatedInspect
    \/ IsolatedGet
    \/ IsolatedFailed
    \/ IsolatedRecord

IsolatedSpec == Init /\ [][IsolatedNext]_vars

\* The same with the scheduling the operating system gives: a worker that is
\* running computes and puts, the feeder thread writes when the pipe has
\* room, a worker with nothing left to write exits, and the caller takes its
\* next step when it can.  Nothing obliges the worker to be killed or the
\* user to enter a command.
IsolatedFairness ==
    /\ WF_vars(WorkerPut) /\ WF_vars(WorkerFlush) /\ WF_vars(WorkerExit)
    /\ WF_vars(IsolatedJoin) /\ WF_vars(IsolatedInspect) /\ WF_vars(IsolatedGet)
    /\ WF_vars(IsolatedFailed) /\ WF_vars(IsolatedRecord)

IsolatedFairSpec == IsolatedSpec /\ IsolatedFairness

\* A process that makes one direct call of one of a plugin's two methods, on
\* Decimal operands of either sign, with and without a fraction and trailing
\* zeros.
DecimalOperands == {Dec(s, c, e) : s \in 0..1, c \in 0..MaxCoef, e \in -MaxExp..MaxExp}

CallArgs(handler, num1, num2) == [handler |-> handler, num1 |-> num1, num2 |-> num2]

\* handler.execute(num1, num2) as the one call of a process; the value
\* returned is kept in last.result
PluginExecute(handler, num1, num2) ==
    /\ mode = "start"
    /\ mode' = "exited"
    /\ last' = Last("execute", CallArgs(handler, num1, num2), dataframe, "",
                    execute(handler, num1, num2))
    /\ UNCHANGED <<dataframe, disk, proc>>

\* handler.execute_multiprocessing(num1, num2, result_queue) on an empty
\* queue; the queue afterwards is kept in last.result
PluginExecuteMultiprocessing(handler, num1, num2) ==
    /\ mode = "start"
    /\ mode' = "exited"
    /\ last' = Last("execute_multiprocessing", CallArgs(handler, num1, num2), dataframe, "",
                    execute_multiprocessing(handler, num1, num2, <<>>))
    /\ UNCHANGED <<dataframe, disk, proc>>

PluginNext ==
    \/ \E h \in PluginClasses, a \in DecimalOperands, b \in DecimalOperands :
         PluginExecute(h, a, b)
    \/ \E h \in PluginClasses, a \in DecimalOperands, b \in DecimalOperands :
         PluginExecuteMultiprocessing(h, a, b)

PluginSpec == Init /\ [][PluginNext]_vars

\* Files another program left at the path: a history written without its
\* header line (the first record is then read as the column names), a
\* table of another kind, and a file of no lines at all.
Text_240 == <<"2", ".", "4", "0">>

HeaderlessFile == File(<<"add", "3", "4", "7">>, << <<Name_subtract, Text_250, Text_01, Text_240>> >>)

OtherTableFile == File(<<"name", "value">>, << <<Name_add, Text_3>> >>)

EmptyFile == File(<<>>, <<>>)

ForeignFiles == {HeaderlessFile, OtherTableFile, EmptyFile}

\* the process starts with a file of another origin at the path
InitForeign ==
    /\ mode = "start"
    /\ dataframe = PandasFacade_init
    /\ disk \in [Paths -> ForeignFiles]
    /\ last = Last("none", None, PandasFacade_init, "", None)
    /\ proc = NoProcess

\* A REPL session next to a file the calculator did not write.
ForeignNext ==
    \/ MainRepl
    \/ \E c \in SampleCommands : ReplArithmetic(c[1], c[2], c[3], FALSE, TRUE, MaxStore)
    \/ ReplClearHistory
    \/ \E n \in FilterNames : ReplFilter(n)
    \/ \E p \in Paths : ReplSaveHistory(p)
    \/ \E p \in Paths : ReplLoadHistory(p)
    \/ ReplLatest
    \/ ReplExit

ForeignSpec == InitForeign /\ [][ForeignNext]_vars

-----------------------------------------------------------------------------
(* What the claims speak of *)

\* the decimal number each valid operand text of the model denotes
DenotedBy ==
    (Text_3 :> Dec(0, 3, 0)) @@ (Text_4 :> Dec(0, 4, 0)) @@
    (Text_01 :> Dec(0, 1, -1)) @@ (Text_250 :> Dec(0, 250, -2))

ValidOperand(s) == s \in DOMAIN DenotedBy

\* the reference semantics of the operation names
RegisteredNames == {Name_add, Name_subtract, Name_multiply, Name_square, Name_mean, Name_median}

Reference(op, a, b) ==
    CASE op = Name_add      -> DecAdd(a, b)
      [] op = Name_subtract -> DecSub(a, b)
      [] op = Name_multiply -> DecMul(a, b)
      [] op = Name_square   -> DecMul(a, a)
      [] op = Name_mean     -> DecHalf(DecAdd(a, b))
      [] op = Name_median   -> DecHalf(DecAdd(a, b))

\* the last command asked for a calculation (one-shot or in the REPL)
Requested == last.cmd \in {"main", "arithmetic"}

\* the last command called calculate_and_display_result
Dispatched ==
    \/ last.cmd = "main"
    \/ last.cmd = "arithmetic" /\ last.args.key \in DOMAIN load_plugins

ValidRequest ==
    /\ ValidOperand(last.args.value1)
    /\ ValidOperand(last.args.value2)
    /\ last.args.key \in RegisteredNames

\* the record a calculation of op on the texts v1, v2 leaves in the history
RecordOf(op, v1, v2) ==
    [operation |-> StrCell(op), num1 |-> DenotedBy[v1], num2 |-> DenotedBy[v2],
     result |-> Reference(op, DenotedBy[v1], DenotedBy[v2])]

\* the history is the one before the last command with one record appended
GrewBy(record) ==
    /\ Len(dataframe.rows) = Len(last.pre.rows) + 1
    /\ \A i \in 1..Len(last.pre.rows) : dataframe.rows[i] = last.pre.rows[i]
    /\ dataframe.rows[Len(dataframe.rows)] = record

\* the lines by which a calculation is reported as each error kind
UnknownOperation       == {MsgUnknownOp, MsgUnknownCommand}
InvalidOperand         == {MsgInvalid}
IsolatedExecutionError == {MsgMpFailed}

-----------------------------------------------------------------------------
\* C1: a synchronous dispatch of a registered operation on two valid decimal
\* operand texts reports op(a, b) and leaves the history exactly one record
\* longer, the new last record being (op, a, b, op(a, b)).
C1_SyncDispatchRecords ==
    (Dispatched /\ ValidRequest /\ ~last.args.mp) =>
        /\ last.printed = MsgResult
        /\ last.result = Reference(last.args.key,
                                   DenotedBy[last.args.value1], DenotedBy[last.args.value2])
        /\ GrewBy(RecordOf(last.args.key, last.args.value1, last.args.value2))

C1_Witness ==
    /\ last.cmd = "arithmetic"
    /\ ~last.args.mp
    /\ last.args.key = Name_add /\ last.args.value1 = Text_3 /\ last.args.value2 = Text_4
    /\ last.result = Dec(0, 7, 0)
    /\ Len(last.pre.rows) = 1
    /\ Len(dataframe.rows) = 2

\* C2 as stated: a dispatch whose operation name is no key of the registry is
\* reported as UnknownOperation, creates no Calculation and leaves the history
\* as it was, whatever the operand texts and the execution mode.
C2_UnknownAlwaysReported ==
    (Requested /\ last.args.key \notin DOMAIN load_plugins) =>
        /\ last.printed \in UnknownOperation
        /\ last.result = None
        /\ dataframe = last.pre

\* C2 as amended: such a dispatch creates no Calculation and leaves the history
\* as it was, and it is reported as UnknownOperation when both operand texts
\* are valid decimal literals.
C2_UnknownReportedForValidOperands ==
    (Requested /\ last.args.key \notin DOMAIN load_plugins) =>
        /\ last.result = None
        /\ dataframe = last.pre
        /\ (ValidOperand(last.args.value1) /\ ValidOperand(last.args.value2))
              => last.printed \in UnknownOperation

C2_Witness ==
    /\ last.cmd = "main"
    /\ last.args.key = Name_Add /\ last.args.value1 = Text_3 /\ last.args.value2 = Text_4
    /\ last.args.mp
    /\ last.printed = MsgUnknownOp
    /\ dataframe = last.pre

\* C3: a dispatch in which either operand text is no valid decimal literal is
\* caught and reported as InvalidOperand, executes no operation and leaves the
\* history unchanged.
C3_InvalidOperandCaught ==
    (Dispatched /\ (~ValidOperand(last.args.value1) \/ ~ValidOperand(last.args.value2))) =>
        /\ last.printed \in InvalidOperand
        /\ last.result = None
        /\ dataframe = last.pre

C3_Witness ==
    /\ last.cmd = "arithmetic"
    /\ last.args.key = Name_add /\ last.args.value1 = Text_3 /\ last.args.value2 = Text_x
    /\ last.printed = MsgInvalid
    /\ Len(last.pre.rows) = 1
    /\ dataframe = last.pre

\* C4: a failed dispatch never appends to the history; when the isolated worker
\* ends without putting a value on the queue, the dispatch reports
\* IsolatedExecutionError and the history has the records it had before.
C4_FailedDispatchAppendsNothing ==
    (Dispatched /\ last.printed # MsgResult /\ last.printed # MsgResultMp) =>
        /\ dataframe = last.pre
        /\ (ValidRequest /\ last.args.mp /\ ~last.args.worker_puts)
              => last.printed \in IsolatedExecutionError

\* C5: an isolated dispatch whose worker completes yields the result and the
\* appended record of the synchronous dispatch of the same inputs from the same
\* history.
C5_IsolatedEqualsSynchronous ==
    (Dispatched /\ ValidRequest /\ last.args.mp /\ last.args.worker_puts) =>
        LET sync == calculate_and_display_result(last.pre, last.args.value1,
                        last.args.value2, last.args.key, load_plugins, FALSE, TRUE)
        IN  /\ last.printed = MsgResultMp
            /\ last.result = sync.result
            /\ last.result = Reference(last.args.key,
                                 DenotedBy[last.args.value1], DenotedBy[last.args.value2])
            /\ dataframe = sync.dataframe
            /\ GrewBy(RecordOf(last.args.key, last.args.value1, last.args.value2))

C5_Witness ==
    /\ last.cmd = "arithmetic"
    /\ last.args.mp /\ last.args.worker_puts
    /\ last.args.key = Name_multiply /\ last.args.value1 = Text_3 /\ last.args.value2 = Text_4
    /\ last.result = Dec(0, 12, 0)
    /\ Len(last.pre.rows) = 1
    /\ Len(dataframe.rows) = 2

-----------------------------------------------------------------------------
(* The history commands *)

\* the integer an index text of the model is the decimal writing of
IndexDenoted(s) == CHOOSE i \in -1..(MaxHist + MaxRows + MaxStore) : IntDigits(i) = s

\* the last command was delete_history with an integer, on n records
Deleting(i, n) ==
    /\ last.cmd = "delete_history"
    /\ last.args # Text_x
    /\ i = IndexDenoted(last.args)
    /\ n = Len(last.pre.rows)

IndexOutOfRange == {MsgOutOfRange}

\* C6: delete(i) with 0 <= i < n removes exactly the record at position i: the
\* store has n-1 records, those before i keep their positions and each record
\* formerly at j > i is at j-1, unchanged.
C6_DeleteShiftsLaterRecords ==
    \A i \in 0..(MaxRows + 1), n \in 0..(MaxRows + 1) :
        (Deleting(i, n) /\ i < n) =>
            /\ last.printed = MsgDeleted
            /\ Len(dataframe.rows) = n - 1
            /\ \A j \in 0..(i - 1) : dataframe.rows[j + 1] = last.pre.rows[j + 1]
            /\ \A j \in (i + 1)..(n - 1) : dataframe.rows[j] = last.pre.rows[j + 1]

C6_Witness ==
    /\ Deleting(1, 3)
    /\ Len(dataframe.rows) = 2
    /\ last.pre.rows[1] # last.pre.rows[3]
    /\ dataframe.rows = <<last.pre.rows[1], last.pre.rows[3]>>

\* C7: delete(index) with index < 0 or index >= n, the empty store included,
\* reports IndexOutOfRange and leaves the store unchanged.
C7_DeleteOutOfRangeChangesNothing ==
    \A i \in -1..(MaxRows + 1), n \in 0..(MaxRows + 1) :
        (Deleting(i, n) /\ (i < 0 \/ i >= n)) =>
            /\ last.printed \in IndexOutOfRange
            /\ dataframe = last.pre

C7_Witness ==
    /\ Deleting(-1, 2)
    /\ last.printed = MsgOutOfRange
    /\ dataframe = last.pre

C7_WitnessEmpty ==
    /\ Deleting(0, 0)
    /\ last.printed = MsgOutOfRange

\* C8: filter_by_operation(name) returns exactly the records whose operation
\* name is name, in their original order (none is no error), and leaves the
\* store as it was.
C8_FilterSelectsInOrder ==
    (last.cmd = "filter_with_operation") =>
        /\ last.result.rows =
              SelectSeq(last.pre.rows, LAMBDA r : r.operation = StrCell(last.args))
        /\ (last.result.rows = <<>>) <=> (last.printed = MsgNoneFound)
        /\ dataframe = last.pre

C8_Witness ==
    /\ last.cmd = "filter_with_operation"
    /\ last.args = Name_add
    /\ Len(last.pre.rows) = 3
    /\ last.pre.rows[2].operation = StrCell(Name_subtract)
    /\ last.result.rows = <<last.pre.rows[1], last.pre.rows[3]>>

C8_WitnessNone ==
    /\ last.cmd = "filter_with_operation"
    /\ last.args = Name_bogus
    /\ Len(last.pre.rows) = 2
    /\ last.result.rows = <<>>

\* two frames hold the same records: as many rows, and in each row cells that
\* are equal (Python's ==) column by column
SameRecords(df1, df2) ==
    /\ Len(df1.rows) = Len(df2.rows)
    /\ \A i \in 1..Len(df1.rows) :
          /\ DOMAIN df1.rows[i] = DOMAIN df2.rows[i]
          /\ \A c \in DOMAIN df1.rows[i] : PyEq(df1.rows[i][c], df2.rows[i][c])

\* the frame was built by calculations and deletes alone: its numbers are Decimals
BuiltByAppends(df) ==
    \A i \in 1..Len(df.rows) :
        /\ df.rows[i].num1.t = "Decimal"
        /\ df.rows[i].num2.t = "Decimal"
        /\ df.rows[i].result.t = "Decimal"

\* C9: from every store S built by appends and deletes, save(path), clear()
\* and load(path) yield a store whose records equal those of S, in order and
\* in every field.
C9_RoundTripReproduces ==
    (mode = "repl" /\ BuiltByAppends(dataframe)) =>
        LET file    == save_to_file(dataframe)
            cleared == clear(dataframe)
            loaded  == load_from_file(cleared, file)
        IN  SameRecords(loaded, dataframe)

\* a field of the file and the cell read from it say the same
FieldIs(f, cell) ==
    IF IsNumeric(cell)
    THEN LET d == ParseDecimal(f)
         IN  /\ d # InvalidOperation
             /\ RatOf(d)[1] * RatOf(cell)[2] = RatOf(cell)[1] * RatOf(d)[2]
    ELSE cell = StrCell(f)

\* C10: load(path) of an existing history file replaces the whole store: the
\* store afterwards is the file's sequence of records, whatever it held before.
C10_LoadReplacesStore ==
    (last.cmd = "load_history" /\ last.printed = MsgLoaded) =>
        LET file == disk[last.args]
        IN  /\ dataframe.columns = file.header
            /\ Len(dataframe.rows) = Len(file.lines)
            /\ \A i \in 1..Len(file.lines) : \A j \in 1..Len(file.header) :
                  FieldIs(file.lines[i][j], dataframe.rows[i][file.header[j]])

C10_Witness ==
    /\ last.cmd = "load_history" /\ last.printed = MsgLoaded
    /\ Len(last.pre.rows) = 2
    /\ Len(dataframe.rows) = 1
    /\ \A i \in 1..2 : last.pre.rows[i].operation # dataframe.rows[1].operation

\* the line that reports the FileNotFound error kind
FileNotFound == {MsgFileNotFound}

\* C11: load_history of a path at which no file exists reports FileNotFound
\* and leaves the history in memory exactly as it was (columns, labels and
\* rows), with the loop still running.
C11_LoadMissingFileChangesNothing ==
    (last.cmd = "load_history" /\ disk[last.args] = NoFile)
        => /\ last.printed \in FileNotFound
           /\ dataframe = last.pre
           /\ mode = "repl"

C11_Witness ==
    /\ last.cmd = "load_history" /\ disk[last.args] = NoFile
    /\ last.printed \in FileNotFound
    /\ Len(last.pre.rows) = 2
    /\ dataframe = last.pre

\* the lines that report the MalformedHistoryFile error kind: the program
\* has none
MalformedHistoryFile == {}

\* C12: load_history of an existing file whose first line is missing or is
\* not operation,num1,num2,result reports MalformedHistoryFile and leaves the
\* history as it was, so that the history always has exactly the columns
\* operation, num1, num2, result.
C12_MalformedHeaderRejected ==
    /\ (last.cmd = "load_history" /\ disk[last.args] # NoFile
                                  /\ disk[last.args].header # Columns)
          => (last.printed \in MalformedHistoryFile /\ dataframe = last.pre)
    /\ dataframe.columns = Columns

\* C13: clear_history always succeeds and is idempotent: afterwards the
\* history has no records and the columns it had before, the loop goes on,
\* and clearing the cleared history again gives that same empty history.
C13_ClearEmptiesAndIsIdempotent ==
    last.cmd = "clear_history"
        => /\ mode = "repl" /\ last.printed = "History cleared."
           /\ dataframe.rows = <<>> /\ dataframe.index = <<>>
           /\ dataframe.columns = last.pre.columns
           /\ clear(dataframe) = dataframe

C13_Witness ==
    /\ last.cmd = "clear_history"
    /\ Len(last.pre.rows) = 2
    /\ last.pre.columns # Columns
    /\ dataframe.rows = <<>>

\* a clear of a history that was already empty
C13_WitnessSecondClear ==
    /\ last.cmd = "clear_history"
    /\ last.pre.rows = <<>> /\ last.pre.columns # Columns
    /\ dataframe = last.pre

\* the REPL has been entered and has handled at least the command in last
InRepl == last.cmd \notin {"none", "main", "repl"}

\* C14: in the REPL a command that reports InvalidOperand, UnknownOperation,
\* IsolatedExecutionError, IndexOutOfRange, FileNotFound or
\* MalformedHistoryFile leaves the loop running, and the loop is left only
\* by the command exit.
C14_OnlyExitEndsLoop ==
    /\ (InRepl /\ last.printed \in (InvalidOperand \cup UnknownOperation \cup
                                    IsolatedExecutionError \cup IndexOutOfRange \cup
                                    FileNotFound \cup MalformedHistoryFile))
          => mode = "repl"
    /\ (InRepl /\ mode # "repl") => (mode = "exited" /\ last.cmd = "exit")

\* the number a Decimal stands for, as a multiple of 10^e (e at most its exponent)
ValueAt(d, e) == (IF d.sign = 1 THEN -1 ELSE 1) * d.coef * Pow10(d.exp - e)

LeastExp(ds) == CHOOSE e \in {d.exp : d \in ds} : \A d \in ds : e <= d.exp

\* C15: on the same two operands mean and median return the same Decimal,
\* and twice that Decimal is the sum of the operands.
C15_MeanIsMedianIsHalfSum ==
    (last.cmd = "execute" /\ last.args.handler \in {MeanCommand, MedianCommand})
        => LET a == last.args.num1
               b == last.args.num2
               e == LeastExp({a, b, last.result})
           IN  /\ last.result = MeanCommand_execute(a, b)
               /\ last.result = MedianCommand_execute(a, b)
               /\ 2 * ValueAt(last.result, e) = ValueAt(a, e) + ValueAt(b, e)

\* median of -0.3 and 20: an odd sum, halved one digit further
C15_Witness ==
    /\ last.cmd = "execute" /\ last.args.handler = MedianCommand
    /\ last.args.num1 = Dec(1, 3, -1) /\ last.args.num2 = Dec(0, 2, 1)
    /\ last.result = Dec(0, 985, -2)

\* C16: square returns the first operand times itself whatever the second
\* operand is, from execute and, as the one value put on the queue, from
\* execute_multiprocessing.
C16_SquareIgnoresSecondOperand ==
    (last.cmd \in {"execute", "execute_multiprocessing"} /\ last.args.handler = SquareCommand)
        => LET a      == last.args.num1
               square == Dec(0, a.coef * a.coef, a.exp + a.exp)
           IN  /\ last.cmd = "execute" => last.result = square
               /\ last.cmd = "execute_multiprocessing" => last.result = <<square>>
               /\ \A b2 \in DecimalOperands :
                     /\ execute(SquareCommand, a, b2) = square
                     /\ execute_multiprocessing(SquareCommand, a, b2, <<>>) = <<square>>

\* (-0.3)^2 = 0.09 with the second operand 20, through the queue
C16_Witness ==
    /\ last.cmd = "execute_multiprocessing" /\ last.args.handler = SquareCommand
    /\ last.args.num1 = Dec(1, 3, -1) /\ last.args.num2 = Dec(0, 2, 1)
    /\ last.result = <<Dec(0, 9, -2)>>

\* an isolated calculation is under way
Isolated == proc.pc # "idle"

\* C17: in an isolated calculation the worker puts at most one value on the
\* queue; the caller asks empty() and calls get() only once join() has
\* returned with the worker terminated; the caller gets at most one value,
\* the one the worker put; and when the queue is found empty after the
\* worker terminated, the failure line is printed and no result is reported.
C17_QueueUsedOnceAfterJoin ==
    Isolated =>
        /\ proc.puts <= 1
        /\ Len(proc.buffer) + Len(proc.pipe) + proc.taken <= proc.puts
        /\ proc.pc \in {"joined", "get", "failed", "record"} => proc.worker = "terminated"
        /\ proc.taken <= 1
        /\ proc.taken = 1 => proc.pc = "record"
        /\ proc.pc = "get" => proc.pipe # <<>>
        /\ proc.pc = "failed" => (proc.pipe = <<>> /\ proc.taken = 0)
        /\ proc.pc = "record" =>
              IF proc.taken = 0
              THEN proc.printed \in IsolatedExecutionError /\ proc.final_result = None
              ELSE /\ proc.printed = MsgResultMp
                   /\ <<proc.final_result>> =
                         execute_multiprocessing(proc.handler, proc.num1, proc.num2, <<>>)

\* the worker put 7 for add 3 4 and exited, and the caller got it after join()
C17_Witness ==
    /\ proc.pc = "record" /\ proc.handler = AddCommand
    /\ proc.puts = 1 /\ proc.taken = 1 /\ proc.pipe = <<>>
    /\ proc.worker = "terminated"
    /\ proc.final_result = Dec(0, 7, 0)

\* the worker was killed before its result reached the pipe
C17_WitnessEmpty ==
    /\ proc.pc = "record" /\ proc.worker = "terminated"
    /\ proc.puts = 1 /\ proc.taken = 0
    /\ proc.printed = MsgMpFailed

\* C18: whatever calculations, deletions, clears and loads came before, the
\* labels of the history's rows are 0, 1, ..., length-1 in order, so that
\* delete_history i removes the row at position i.
C18_IndexIsPosition ==
    /\ Len(dataframe.index) = Len(dataframe.rows)
    /\ \A i \in 1..Len(dataframe.rows) : dataframe.index[i] = i - 1
    /\ \A i \in 0..(Len(dataframe.rows) - 1) :
          LET after == delete_record(dataframe, i).dataframe
          IN  /\ Len(after.rows) = Len(dataframe.rows) - 1
              /\ \A k \in 1..Len(after.rows) :
                    after.rows[k] = dataframe.rows[IF k <= i THEN k ELSE k + 1]

\* the first of two records was deleted: the record left has label 0
C18_Witness ==
    /\ last.cmd = "delete_history" /\ last.printed = MsgDeleted
    /\ last.args = IntDigits(0)
    /\ Len(last.pre.rows) = 2
    /\ dataframe.index = <<0>>
    /\ dataframe.rows = <<last.pre.rows[2]>>

\* a history loaded from its file and then extended
C18_WitnessLoadThenAppend ==
    /\ last.cmd = "arithmetic" /\ Len(dataframe.rows) = 2
    /\ dataframe.rows[1][Col_num1].t # "Decimal"
    /\ dataframe.index = <<0, 1>>

\* the last command reported a result, from the calling process or from the queue
ReportedResult == Requested /\ last.printed \in {MsgResult, MsgResultMp}

\* C19: after a dispatch that reported a result, in either mode, the history
\* is one record longer and the result in the new record is the value that
\* was reported, which is the value operate() computes in the calling
\* process from the parsed operands and the handler.
C19_RecordedResultIsReported ==
    ReportedResult =>
        LET n == Len(dataframe.rows)
        IN  /\ n = Len(last.pre.rows) + 1
            /\ dataframe.rows[n][Col_result] = last.result
            /\ dataframe.rows[n][Col_result] =
                  operate(Calculation(ParseDecimal(last.args.value1),
                                      ParseDecimal(last.args.value2),
                                      load_plugins[last.args.key])).result

\* 0.1 - 4 in a worker process: -3.9 is reported from the queue and recorded
C19_Witness ==
    /\ ReportedResult /\ last.args.mp /\ last.printed = MsgResultMp
    /\ last.args.key = Name_subtract
    /\ last.args.value1 = Text_01 /\ last.args.value2 = Text_4
    /\ last.result = Dec(1, 39, -1)
    /\ dataframe.rows[Len(dataframe.rows)][Col_result] = Dec(1, 39, -1)

\* the last command called calculate_and_display_result and a record was added
Recorded == Dispatched /\ Len(dataframe.rows) = Len(last.pre.rows) + 1

\* C20: every key of the mapping load_plugins returns is the operation_name
\* of the instance under it, and no instance is under two keys; so the
\* record a dispatch adds carries the name the dispatch was asked for, and
\* filtering the history by that name returns that record.
C20_KeyIsOperationName ==
    /\ \A k \in DOMAIN load_plugins : load_plugins[k].operation_name = k
    /\ \A k1, k2 \in DOMAIN load_plugins : load_plugins[k1] = load_plugins[k2] => k1 = k2
    /\ Recorded =>
          LET n     == Len(dataframe.rows)
              found == filter_by_operation(dataframe, last.args.key)
          IN  /\ dataframe.rows[n][Col_operation] = StrCell(last.args.key)
              /\ \E i \in 1..Len(found.rows) :
                    found.index[i] = n - 1 /\ found.rows[i] = dataframe.rows[n]

\* mean 3 4 after another calculation: the record is named mean and found
C20_Witness ==
    /\ Recorded /\ last.args.key = Name_mean
    /\ Len(dataframe.rows) = 2
    /\ dataframe.rows[1][Col_operation] # StrCell(Name_mean)
    /\ dataframe.rows[2][Col_operation] = StrCell(Name_mean)
    /\ filter_by_operation(dataframe, Name_mean).index = <<1>>
    /\ DOMAIN load_plugins = RegisteredNames

\* calculate_and_display_result has returned from its multiprocessing branch
\* with an outcome: the result line or the failure line was printed
Returned ==
    /\ proc.pc = "idle" /\ last.cmd = "arithmetic"
    /\ last.printed \in {MsgResultMp} \cup IsolatedExecutionError

\* C21: every calculation started in a worker process eventually returns to
\* the caller with a result or with the failure reported; the caller waiting
\* in join() before it reads the queue and the worker waiting to write its
\* result never wait on each other forever.
C21_IsolatedDispatchReturns == Isolated ~> Returned

\* the caller waits in join() while the worker's result lies unread in the pipe
C21_Witness ==
    /\ proc.pc = "join" /\ proc.worker = "returned"
    /\ proc.buffer = <<>> /\ proc.pipe # <<>>
    /\ proc.taken = 0

=============================================================================
